---- MODULE Spec2Model ----
(***************************************************************************)
(* Model of cedws/mcp-experiment (src/main.go): an agent loop that joins a  *)
(* chat-completion API with an MCP tool server.  The state is main's local  *)
(* variables, the position of the single thread of control, the remote      *)
(* operations in flight and the logs of what the program showed and sent.   *)
(***************************************************************************)
EXTENDS Integers, Sequences, FiniteSets, TLC

\* Bounds of the model.
MaxTurns == 2        \* completion calls the environment answers in one run
MaxToolCalls == 2    \* tool call requests one response may carry
MaxTools == 2        \* tool descriptors the tool server may list
MaxModels == 3       \* model identifiers the provider may list

defaultModel == "google/gemini-2.5-flash"

VARIABLES
    scenario,         \* which answers the environment may give in this run
    pc,               \* position of the thread of control in main / callTool
    exit,             \* "" while running, else how the process ended
    systemMessages,   \* the package-level slice of system messages
    toolsResult,      \* toolList's result: the listed tool descriptors
    toolsSchema,      \* convertToolsSchema's result
    listed,           \* what the provider's model listing yielded to fetchModels
    models,           \* fetchModels's result
    question,         \* showForm's first result
    model,            \* showForm's second result
    messages,         \* params.Messages
    completion,       \* the response of the current turn
    idx,              \* position of the range loop over toolCalls (1-based)
    args,             \* callTool's decoded arguments
    toolResult,       \* the tool server's answer to the current call
    err,              \* the error callTool returned, "" if none
    inflight,         \* remote operations awaiting their response
    completionCalls,  \* log: the request of every completion call made
    responses,        \* log: every successful completion response received
    invocations,      \* log: every tools/call request sent, and for which request
    display           \* log: every box printed, in order

vars == <<scenario, pc, exit, systemMessages, toolsResult, toolsSchema, listed, models,
          question, model, messages, completion, idx, args, toolResult,
          err, inflight, completionCalls, responses, invocations, display>>

----------------------------------------------------------------------------
\* Generic helpers.

SeqsUpTo(S, n) == UNION {[1..k -> S] : k \in 0..n}

IsPrefix(s, t) == Len(s) <= Len(t) /\ SubSeq(t, 1, Len(s)) = s

Last(s) == s[Len(s)]

----------------------------------------------------------------------------
\* Conversation messages (openai.ChatCompletionMessageParamUnion).

SystemMessage(c) ==
    [role |-> "system", content |-> c, tool_calls |-> <<>>, tool_call_id |-> ""]

UserMessage(c) ==
    [role |-> "user", content |-> c, tool_calls |-> <<>>, tool_call_id |-> ""]

ToolMessage(c, id) ==
    [role |-> "tool", content |-> c, tool_calls |-> <<>>, tool_call_id |-> id]

\* ChatCompletionMessage.ToParam(): the response message as an assistant message.
ToParam(msg) ==
    [role |-> "assistant", content |-> msg.Content,
     tool_calls |-> msg.ToolCalls, tool_call_id |-> ""]

InitialSystemMessages ==
    << SystemMessage("To be a fast and efficient agent, batch tool calls together."),
       SystemMessage("Do everything using a Python sandbox. Don't use built-in tool calling, use the Python sandbox."),
       SystemMessage("Don't try to calculate yourself or retrieve results from memory. You compute everything."),
       SystemMessage("Output the result and ONLY the result.") >>

----------------------------------------------------------------------------
\* JSON argument payloads and encoding/json's Unmarshal into map[string]any.
\* A payload is the text the model supplied, described by its syntax tree;
\* kind "invalid" is a text that is not JSON at all.

JString(s) == [t |-> "string", s |-> s, n |-> 0]
JNumber(n) == [t |-> "number", s |-> "", n |-> n]

NotJSON == [kind |-> "invalid", members |-> {}]
JSONNull == [kind |-> "null", members |-> {}]
JSONArray == [kind |-> "array", members |-> {}]
JSONObject(ms) == [kind |-> "object", members |-> ms]

CodeObject(c) == JSONObject({[k |-> "code", v |-> JString(c)]})
CodeNumberObject == JSONObject({[k |-> "code", v |-> JNumber(1)]})
EmptyObject == JSONObject({})

\* Mutant of Unmarshal: a text that is not JSON decodes to no arguments.
UnmarshalLenient(payload) ==
    IF payload.kind = "object"
    THEN [err |-> FALSE, isNil |-> FALSE,
          m |-> {[k |-> e.k,
                  v |-> [goType |-> IF e.v.t = "string" THEN "string" ELSE "float64",
                         s |-> e.v.s, n |-> e.v.n]] : e \in payload.members}]
    ELSE [err |-> FALSE, isNil |-> TRUE, m |-> {}]

\* json.Unmarshal(data, &args) with args a nil map[string]any:
\* a syntax error and a non-object value are errors, null leaves the map nil,
\* an object fills the map (a JSON string becomes a Go string, a number a float64).
Unmarshal(payload) ==
    CASE payload.kind = "invalid" -> [err |-> TRUE, isNil |-> TRUE, m |-> {}]
      [] payload.kind = "null" -> [err |-> FALSE, isNil |-> TRUE, m |-> {}]
      [] payload.kind = "object" ->
            [err |-> FALSE, isNil |-> FALSE,
             m |-> {[k |-> e.k,
                     v |-> [goType |-> IF e.v.t = "string" THEN "string" ELSE "float64",
                            s |-> e.v.s, n |-> e.v.n]] : e \in payload.members}]
      [] OTHER -> [err |-> TRUE, isNil |-> TRUE, m |-> {}]

\* args[key]: the zero value (a nil interface) when the map is nil or lacks the key.
MapIndex(a, key) ==
    IF \E e \in a.m : e.k = key
    THEN (CHOOSE e \in a.m : e.k = key).v
    ELSE [goType |-> "nil", s |-> "", n |-> 0]

\* v.(string): the single-value type assertion panics unless v holds a string.
AssertString(v) ==
    IF v.goType = "string" THEN [panic |-> FALSE, s |-> v.s] ELSE [panic |-> TRUE, s |-> ""]

----------------------------------------------------------------------------
\* Tool descriptors and convertToolsSchema.
\* A Go map or slice is modelled with its nil-ness: len() is 0 for both the
\* nil and the empty value.

Props(isNil, keys) == [isNil |-> isNil, keys |-> keys]

Tool(name, props, required) ==
    [Name |-> name, Description |-> "",
     InputSchema |-> [Properties |-> props, Required |-> required]]

\* Mutant of convertTool: the first entry of the required list is left out.
convertToolDropFirst(tool) ==
    LET properties ==
            IF Cardinality(tool.InputSchema.Properties.keys) > 0
            THEN tool.InputSchema.Properties
            ELSE Props(FALSE, {})
        hasRequired == Len(tool.InputSchema.Required) > 1
    IN [Name |-> tool.Name,
        Description |-> tool.Description,
        Parameters |->
            [keys |-> {"type", "properties"} \cup (IF hasRequired THEN {"required"} ELSE {}),
             type |-> "object",
             properties |-> properties,
             required |-> IF hasRequired THEN Tail(tool.InputSchema.Required) ELSE <<>>]]

\* Mutant of convertTool: the properties are passed on as they are, a nil or
\* empty map included, and the required list is always set.
convertToolUnguarded(tool) ==
    [Name |-> tool.Name,
     Description |-> tool.Description,
     Parameters |->
        [keys |-> {"type", "required"}
                  \cup (IF tool.InputSchema.Properties.isNil THEN {} ELSE {"properties"}),
         type |-> "object",
         properties |-> tool.InputSchema.Properties,
         required |-> tool.InputSchema.Required]]

\* The body of the loop of convertToolsSchema for one tool.  The schema map is
\* modelled by the set of keys it holds and the value of each.
convertTool(tool) ==
    LET properties ==
            IF Cardinality(tool.InputSchema.Properties.keys) > 0
            THEN tool.InputSchema.Properties
            ELSE Props(FALSE, {})
        hasRequired == Len(tool.InputSchema.Required) > 0
    IN [Name |-> tool.Name,
        Description |-> tool.Description,
        Parameters |->
            [keys |-> {"type", "properties"} \cup (IF hasRequired THEN {"required"} ELSE {}),
             type |-> "object",
             properties |-> properties,
             required |-> IF hasRequired THEN tool.InputSchema.Required ELSE <<>>]]

convertToolsSchema(tools) == [i \in 1..Len(tools) |-> convertTool(tools[i])]

----------------------------------------------------------------------------
\* fetchModels over the provider's auto-paging iterator.  A listing is the
\* sequence of model ids the iterator yields and whether it ends in an error.
\* Current() before the first Next() is the zero value, whose ID is "".

RECURSIVE fetchLoop(_, _, _)
fetchLoop(listing, pos, res) ==
    LET current == IF pos = 0 THEN "" ELSE listing.items[pos]
        res2 == Append(res, current)
    IN IF pos < Len(listing.items)          \* models.Next()
       THEN fetchLoop(listing, pos + 1, res2)
       ELSE IF listing.err                  \* models.Err() != nil
            THEN [res |-> <<>>, err |-> TRUE]
            ELSE [res |-> res2, err |-> FALSE]

fetchModels(listing) == fetchLoop(listing, 0, <<>>)

----------------------------------------------------------------------------
\* Tool results (mcp.CallToolResult) and the result text of callTool.

TextContent(s) == [type |-> "text", text |-> s]
ImageContent == [type |-> "image", text |-> ""]

CallOK(isError, content) == [err |-> "", IsError |-> isError, Content |-> content]
CallErr(kind) == [err |-> kind, IsError |-> FALSE, Content |-> <<>>]

\* fmt.Sprintf("%v", item) of a non-text content item: never the empty string.
Sprintf(item) == "{{<nil> <nil> " \o item.type \o "} }"

\* Mutant of resultText: the last content item is taken, not the first.
resultTextOfLast(res) ==
    IF Len(res.Content) > 0
    THEN IF res.Content[Len(res.Content)].type = "text"
         THEN res.Content[Len(res.Content)].text
         ELSE Sprintf(res.Content[Len(res.Content)])
    ELSE ""

\* main.go lines 278-288.
resultText(res) ==
    IF Len(res.Content) > 0
    THEN IF res.Content[1].type = "text"      \* mcp.AsTextContent
         THEN res.Content[1].text
         ELSE Sprintf(res.Content[1])
    ELSE ""

----------------------------------------------------------------------------
\* What the environment (the user, the tool server, the completion API and
\* the model behind it) may answer.  The "loop" runs have several turns and
\* several tool calls a turn over a few payloads and results; the "dispatch"
\* runs have one tool call a turn over every kind of payload and result.

Scenarios == {"loop", "dispatch", "translate", "fetch"}

Questions == {"compute 7*6"}

SandboxTool == Tool("sandbox_run_code", Props(FALSE, {"code"}), <<"code">>)
OtherTool == Tool("other_tool", Props(TRUE, {}), <<>>)

ToolListings(s) ==
    IF s = "loop"
    THEN {<<>>, <<SandboxTool>>, <<SandboxTool, OtherTool>>}
    ELSE {<<>>, <<SandboxTool, OtherTool>>}

\* The model identifiers a provider may list.
ModelIDs == {defaultModel, "openai/gpt-4o", "anthropic/claude-sonnet-4", "x-ai/grok-3"}

\* What the auto-paging iterator may yield: the identifiers of the pages it
\* could fetch, in order, and whether fetching stopped at an error.
ModelListings(s) ==
    IF s = "fetch"
    THEN {[items |-> i, err |-> e] : i \in SeqsUpTo(ModelIDs, MaxModels), e \in BOOLEAN}
    ELSE {[items |-> <<defaultModel>>, err |-> e] : e \in BOOLEAN}

\* The input schemas a tool server may declare.
PropertySets ==
    {Props(TRUE, {}), Props(FALSE, {}), Props(FALSE, {"code"}),
     Props(FALSE, {"code", "language"})}

RequiredLists == {<<>>, <<"code">>, <<"code", "language">>}

Descriptors ==
    {Tool(n, ps, rq) :
        n \in {"sandbox_run_code", "other_tool"}, ps \in PropertySets, rq \in RequiredLists}

\* The non-empty tool lists toolList may return.
DescriptorLists == SeqsUpTo(Descriptors, MaxTools) \ {<<>>}

\* The completion API gives every tool call request an identifier of its own
\* (spec.md section 3: unique within a turn): request i of turn t is "call_t_i".
CallID(t, i) == "call_" \o ToString(t) \o "_" \o ToString(i)

ToolNames(s) ==
    IF s = "loop" THEN {"sandbox_run_code"} ELSE {"sandbox_run_code", "other_tool"}

Payloads(s) ==
    IF s = "loop"
    THEN {NotJSON, CodeObject("7*6")}
    ELSE {NotJSON, JSONNull, JSONArray, EmptyObject, CodeNumberObject, CodeObject("1+1")}

Texts(s) == IF s = "loop" THEN {"", "42"} ELSE {""}

ToolResults(s) ==
    IF s = "loop"
    THEN {CallErr("transport"), CallOK(FALSE, <<TextContent("42")>>)}
    ELSE {CallErr("transport"), CallErr("rpc"),
          CallOK(FALSE, <<>>),
          CallOK(FALSE, <<TextContent("2")>>),
          CallOK(FALSE, <<ImageContent>>),
          CallOK(FALSE, <<TextContent("2"), ImageContent>>),
          CallOK(FALSE, <<ImageContent, TextContent("2")>>),
          CallOK(TRUE, <<TextContent("boom")>>)}

CallsPerTurn(s) == IF s = "loop" THEN MaxToolCalls ELSE 1

\* The tool call request lists a response of turn t may carry.
ToolCallLists(s, t) ==
    {[i \in 1..Len(c) |-> [ID |-> CallID(t, i), Name |-> c[i][1], Arguments |-> c[i][2]]] :
        c \in SeqsUpTo(ToolNames(s) \X Payloads(s), CallsPerTurn(s))}

\* A successful completion response of turn t: no choice at all, or one choice
\* whose message has a text and a list of tool call requests.
Responses(s, t) ==
    {[Choices |-> <<>>]} \cup
    {[Choices |-> <<[Message |-> [Content |-> txt, ToolCalls |-> tc]]>>] :
        txt \in Texts(s), tc \in ToolCallLists(s, t)}

----------------------------------------------------------------------------
\* The state after the package is initialised, before main's first statement.

\* The state at position p of main with the tool list tools.
InitAt(s, p, tools) ==
    /\ scenario = s
    /\ pc = p
    /\ exit = ""
    /\ systemMessages = InitialSystemMessages
    /\ toolsResult = tools
    /\ listed = [items |-> <<>>, err |-> FALSE]
    /\ toolsSchema = <<>>
    /\ models = <<>>
    /\ question = ""
    /\ model = ""
    /\ messages = <<>>
    /\ completion = [Choices |-> <<>>]
    /\ idx = 0
    /\ args = [err |-> FALSE, isNil |-> TRUE, m |-> {}]
    /\ toolResult = CallOK(FALSE, <<>>)
    /\ err = ""
    /\ inflight = {}
    /\ completionCalls = <<>>
    /\ responses = <<>>
    /\ invocations = <<>>
    /\ display = <<>>

InitWith(s) == InitAt(s, "NewClient", <<>>)

Init == InitWith("loop")

InitDispatch == InitWith("dispatch")

\* convertToolsSchema alone: main at line 80, after toolList returned any
\* non-empty list of descriptors.
InitTranslate == \E tools \in DescriptorLists : InitAt("translate", "Convert", tools)

\* fetchModels alone: main at line 92, with one of the tool lists.
InitFetch == InitAt("fetch", "FetchModels", <<SandboxTool>>)

\* log.Fatalf / log.Fatal: the process ends at once with the message.
Fatal(msg) == pc' = "Exit" /\ exit' = msg

\* A run-time panic ends the process as well.
Panic == pc' = "Exit" /\ exit' = "panic"

Message == completion.Choices[1].Message

\* Line 120.
toolCalls == Message.ToolCalls

\* Mutant of toolCall: the range loop walks the tool calls from the last.
toolCallReversed == toolCalls[Len(toolCalls) + 1 - idx]

\* Line 130: the tool call of the current iteration.
toolCall == toolCalls[idx]

----------------------------------------------------------------------------
\* main, lines 69-108: start-up.

NewStreamableHttpClient ==
    /\ pc = "NewClient"
    /\ \E ok \in BOOLEAN :
          IF ok THEN pc' = "Start" /\ exit' = exit
                ELSE Fatal("Failed to create MCP client")
    /\ UNCHANGED <<scenario, listed, systemMessages, toolsResult, toolsSchema, models,
                   question, model, messages, completion, idx, args, toolResult,
                   err, inflight, completionCalls, responses, invocations, display>>

Start ==
    /\ pc = "Start"
    /\ \E ok \in BOOLEAN :
          IF ok THEN pc' = "Initialize" /\ exit' = exit
                ELSE Fatal("Failed to start MCP client")
    /\ UNCHANGED <<scenario, listed, systemMessages, toolsResult, toolsSchema, models,
                   question, model, messages, completion, idx, args, toolResult,
                   err, inflight, completionCalls, responses, invocations, display>>

\* toolList, lines 220-238.
Initialize ==
    /\ pc = "Initialize"
    /\ \E ok \in BOOLEAN :
          IF ok THEN pc' = "ListTools" /\ exit' = exit
                ELSE Fatal("Failed to initialize MCP client")
    /\ UNCHANGED <<scenario, listed, systemMessages, toolsResult, toolsSchema, models,
                   question, model, messages, completion, idx, args, toolResult,
                   err, inflight, completionCalls, responses, invocations, display>>

\* Mutant of NoTools: an empty tool list is accepted.
NoToolsNever(tools) == FALSE

\* toolList, line 244.
NoTools(tools) == Len(tools) = 0

\* toolList, lines 240-248.
ListTools ==
    /\ pc = "ListTools"
    /\ \/ Fatal("Failed to list tools") /\ UNCHANGED toolsResult
       \/ \E tools \in ToolListings(scenario) :
             /\ toolsResult' = tools
             /\ IF NoTools(tools)
                THEN Fatal("No tools available from MCP server")
                ELSE pc' = "Convert" /\ exit' = exit
    /\ UNCHANGED <<scenario, listed, systemMessages, toolsSchema, models,
                   question, model, messages, completion, idx, args, toolResult,
                   err, inflight, completionCalls, responses, invocations, display>>

\* main, line 80.
ConvertTools ==
    /\ pc = "Convert"
    /\ toolsSchema' = convertToolsSchema(toolsResult)
    /\ pc' = "LookupEnv"
    /\ UNCHANGED <<scenario, listed, exit, systemMessages, toolsResult, models,
                   question, model, messages, completion, idx, args, toolResult,
                   err, inflight, completionCalls, responses, invocations, display>>

\* main, lines 82-90.
LookupEnv ==
    /\ pc = "LookupEnv"
    /\ \E ok \in BOOLEAN :
          IF ok THEN pc' = "FetchModels" /\ exit' = exit
                ELSE Fatal("OPENAI_API_KEY environment variable not set")
    /\ UNCHANGED <<scenario, listed, systemMessages, toolsResult, toolsSchema, models,
                   question, model, messages, completion, idx, args, toolResult,
                   err, inflight, completionCalls, responses, invocations, display>>

\* main, lines 92-95.
FetchModels ==
    /\ pc = "FetchModels"
    /\ \E l \in ModelListings(scenario) :
          LET r == fetchModels(l)
          IN /\ listed' = l
             /\ IF r.err
                THEN Fatal("Failed to fetch models") /\ UNCHANGED models
                ELSE pc' = "ShowForm" /\ exit' = exit /\ models' = r.res
    /\ UNCHANGED <<scenario, systemMessages, toolsResult, toolsSchema,
                   question, model, messages, completion, idx, args, toolResult,
                   err, inflight, completionCalls, responses, invocations, display>>

\* main, lines 97-100, and showForm: the user types a question and selects
\* one of the offered models, or the form fails.
ShowForm ==
    /\ pc = "ShowForm"
    /\ \/ Fatal("Failed to run input") /\ UNCHANGED <<question, model>>
       \/ \E q \in Questions, i \in 1..Len(models) :
             /\ question' = q
             /\ model' = models[i]
             /\ pc' = "Params"
             /\ exit' = exit
    /\ UNCHANGED <<scenario, listed, systemMessages, toolsResult, toolsSchema, models,
                   messages, completion, idx, args, toolResult,
                   err, inflight, completionCalls, responses, invocations, display>>

\* main, lines 102-108.  systemMessages is a slice literal, so its capacity
\* equals its length and append copies it: the global is left as it was.
\* Mutant of InitialMessages: the user message comes first.
InitialMessagesUserFirst(sys, q) == <<UserMessage(q)>> \o sys

\* Line 107.
InitialMessages(sys, q) == Append(sys, UserMessage(q))

NewParams ==
    /\ pc = "Params"
    /\ display' = Append(display, [kind |-> "query", text |-> question])
    /\ messages' = InitialMessages(systemMessages, question)
    /\ pc' = "Complete"
    /\ UNCHANGED <<scenario, listed, exit, systemMessages, toolsResult, toolsSchema, models,
                   question, model, completion, idx, args, toolResult,
                   err, inflight, completionCalls, responses, invocations>>

----------------------------------------------------------------------------
\* main, lines 110-141: the agent loop.

CompletionOp(n) == [op |-> "chat.completions", n |-> n]
CallToolOp(n) == [op |-> "tools/call", n |-> n]

\* Line 111, the request leaves: params as they are now go to the API.
CompletionsNew ==
    /\ pc = "Complete"
    /\ Len(completionCalls) < MaxTurns
    /\ completionCalls' = Append(completionCalls,
            [Messages |-> messages, Tools |-> toolsSchema, Model |-> model])
    /\ inflight' = inflight \cup {CompletionOp(Len(completionCalls) + 1)}
    /\ pc' = "AwaitCompletion"
    /\ UNCHANGED <<scenario, listed, exit, systemMessages, toolsResult, toolsSchema, models,
                   question, model, messages, completion, idx, args, toolResult,
                   err, responses, invocations, display>>

\* Mutant of CompletionFailed: the call is tried again.
CompletionFailedRetry == pc' = "Complete" /\ exit' = exit

\* Lines 112-114.
CompletionFailed == Fatal("Failed to create chat completion")

\* Lines 111-114, the call returns: an error is fatal, a response is kept.
CompletionsReturn ==
    /\ pc = "AwaitCompletion"
    /\ inflight' = inflight \ {CompletionOp(Len(completionCalls))}
    /\ \/ CompletionFailed /\ UNCHANGED <<completion, responses>>
       \/ \E r \in Responses(scenario, Len(completionCalls)) :
             /\ completion' = r
             /\ responses' = Append(responses, r)
             /\ pc' = "Content"
             /\ exit' = exit
    /\ UNCHANGED <<scenario, listed, systemMessages, toolsResult, toolsSchema, models,
                   question, model, messages, idx, args, toolResult,
                   err, completionCalls, invocations, display>>

\* Mutant of HasContent: no text is ever shown.
\* Mutant of HasContent: an empty text is shown too.
HasContentAlways(content) == TRUE

HasContentNever(content) == FALSE

\* Line 116.
HasContent(content) == content # ""

\* Lines 116-118.  completion.Choices[0] panics when the response has no choice.
PrintContent ==
    /\ pc = "Content"
    /\ IF Len(completion.Choices) = 0
       THEN Panic /\ UNCHANGED display
       ELSE /\ display' = IF HasContent(Message.Content)
                          THEN Append(display, [kind |-> "result", text |-> Message.Content])
                          ELSE display
            /\ pc' = "ToolCalls"
            /\ exit' = exit
    /\ UNCHANGED <<scenario, listed, systemMessages, toolsResult, toolsSchema, models,
                   question, model, messages, completion, idx, args, toolResult,
                   err, inflight, completionCalls, responses, invocations>>

\* Mutant of NoToolCalls: the loop also ends on a response with one request.
\* Mutant of NoToolCalls: the loop never breaks.
NoToolCallsNever(tc) == FALSE

\* Mutant of NoToolCalls: the loop breaks on every response.
NoToolCallsAlways(tc) == TRUE

NoToolCallsOffByOne(tc) == Len(tc) <= 1

\* Line 121.
NoToolCalls(tc) == Len(tc) = 0

\* Lines 120-130: leave the loop when no tool call is requested, else append
\* the assistant message and enter the range loop at its first tool call.
CheckToolCalls ==
    /\ pc = "ToolCalls"
    /\ IF NoToolCalls(toolCalls)
       THEN /\ pc' = "Exit"
            /\ exit' = "Done"
            /\ UNCHANGED <<messages, idx>>
       ELSE /\ messages' = Append(messages, ToParam(Message))
            /\ idx' = 1
            /\ pc' = "Unmarshal"
            /\ exit' = exit
    /\ UNCHANGED <<scenario, listed, systemMessages, toolsResult, toolsSchema, models,
                   question, model, completion, args, toolResult,
                   err, inflight, completionCalls, responses, invocations, display>>

\* Mutant of AfterToolCall: the range loop ends after its first tool call.
AfterToolCallFirstOnly(i) == "Complete"

\* The position after the body of the range loop for tool call i: the next
\* tool call, or the head of the for loop when there is none.
AfterToolCall(i) == IF i < Len(toolCalls) THEN "Unmarshal" ELSE "Complete"

\* Mutant of CallToolFailed: the error is noted and the range loop goes on.
CallToolFailedContinue(e) ==
    /\ err' = e
    /\ exit' = exit
    /\ idx' = idx + 1
    /\ pc' = AfterToolCall(idx)

\* main, lines 132-134: an error of callTool is fatal.
CallToolFailed(e) ==
    /\ err' = e
    /\ Fatal("Failed to call tool")
    /\ idx' = idx

\* callTool, lines 252-256.
UnmarshalArguments ==
    /\ pc = "Unmarshal"
    /\ LET d == Unmarshal(toolCall.Arguments)
       IN IF d.err
          THEN /\ CallToolFailed("failed to unmarshal tool arguments")
               /\ UNCHANGED args
          ELSE /\ args' = d
               /\ pc' = "Switch"
               /\ UNCHANGED <<err, exit, idx>>
    /\ UNCHANGED <<scenario, listed, systemMessages, toolsResult, toolsSchema, models,
                   question, model, messages, completion, toolResult,
                   inflight, completionCalls, responses, invocations, display>>

\* Mutant of IsCodeTool: every tool is taken for the code tool.
IsCodeToolAlways(name) == TRUE

\* callTool, lines 258-259: the one case of the switch.
IsCodeTool(name) == name = "sandbox_run_code"

\* callTool, lines 258-261.
SwitchName ==
    /\ pc = "Switch"
    /\ IF IsCodeTool(toolCall.Name)
       THEN LET code == AssertString(MapIndex(args, "code"))
            IN IF code.panic
               THEN Panic /\ UNCHANGED display
               ELSE /\ display' = Append(display, [kind |-> "code", text |-> code.s])
                    /\ pc' = "CallTool"
                    /\ exit' = exit
       ELSE /\ pc' = "CallTool"
            /\ UNCHANGED <<display, exit>>
    /\ UNCHANGED <<scenario, listed, systemMessages, toolsResult, toolsSchema, models,
                   question, model, messages, completion, idx, args, toolResult,
                   err, inflight, completionCalls, responses, invocations>>

\* callTool, lines 263-273, the tools/call request leaves.
McpCallTool ==
    /\ pc = "CallTool"
    /\ invocations' = Append(invocations, [Name |-> toolCall.Name, Arguments |-> args, For |-> toolCall.ID])
    /\ inflight' = inflight \cup {CallToolOp(Len(invocations) + 1)}
    /\ pc' = "AwaitTool"
    /\ UNCHANGED <<scenario, listed, exit, systemMessages, toolsResult, toolsSchema, models,
                   question, model, messages, completion, idx, args, toolResult,
                   err, completionCalls, responses, display>>

\* Mutant of CallFailed: only a transport failure counts as an error.
CallFailedTransportOnly(r) == r.err = "transport"

\* callTool, line 274: mcpClient.CallTool returns an error for a transport
\* failure and for a protocol error response; a result whose IsError flag is
\* set comes back as a result, with a nil error.
CallFailed(r) == r.err # ""

\* callTool, lines 273-276: the call returns an error or a result.
McpCallToolReturn ==
    /\ pc = "AwaitTool"
    /\ inflight' = inflight \ {CallToolOp(Len(invocations))}
    /\ \E r \in ToolResults(scenario) :
          IF CallFailed(r)
          THEN /\ CallToolFailed("failed to call tool: " \o r.err)
               /\ UNCHANGED toolResult
          ELSE /\ toolResult' = r
               /\ pc' = "Result"
               /\ UNCHANGED <<err, exit, idx>>
    /\ UNCHANGED <<scenario, listed, systemMessages, toolsResult, toolsSchema, models,
                   question, model, messages, completion, args,
                   completionCalls, responses, invocations, display>>

\* callTool, lines 278-288, and main, lines 136-140.
AppendToolMessage ==
    /\ pc = "Result"
    /\ messages' = Append(messages, ToolMessage(resultText(toolResult), toolCall.ID))
    /\ idx' = idx + 1
    /\ pc' = AfterToolCall(idx)
    /\ UNCHANGED <<scenario, listed, exit, systemMessages, toolsResult, toolsSchema, models,
                   question, model, completion, args, toolResult,
                   err, inflight, completionCalls, responses, invocations, display>>

----------------------------------------------------------------------------

Next ==
    \/ NewStreamableHttpClient
    \/ Start
    \/ Initialize
    \/ ListTools
    \/ ConvertTools
    \/ LookupEnv
    \/ FetchModels
    \/ ShowForm
    \/ NewParams
    \/ CompletionsNew
    \/ CompletionsReturn
    \/ PrintContent
    \/ CheckToolCalls
    \/ UnmarshalArguments
    \/ SwitchName
    \/ McpCallTool
    \/ McpCallToolReturn
    \/ AppendToolMessage

Spec == Init /\ [][Next]_vars

SpecDispatch == InitDispatch /\ [][Next]_vars

NextTranslate == ConvertTools

SpecTranslate == InitTranslate /\ [][NextTranslate]_vars

NextFetch == FetchModels

SpecFetch == InitFetch /\ [][NextFetch]_vars

\* A specification with the progress the program's single thread guarantees:
\* a step that can be taken is taken (every remote call returns or fails).
FairSpec == Init /\ [][Next]_vars /\ WF_vars(Next)

----------------------------------------------------------------------------
\* Helpers of the properties.

HasChoice(r) == Len(r.Choices) > 0

CallsOf(r) == IF HasChoice(r) THEN r.Choices[1].Message.ToolCalls ELSE <<>>

TextOf(r) == IF HasChoice(r) THEN r.Choices[1].Message.Content ELSE ""

\* The number of tool call requests of the first n responses.
RECURSIVE RequestsUpTo(_)
RequestsUpTo(n) == IF n = 0 THEN 0 ELSE RequestsUpTo(n - 1) + Len(CallsOf(responses[n]))

Turn == Len(responses)

\* The last response was received and carries a message without tool calls.
FinalResponse == Turn >= 1 /\ HasChoice(responses[Turn]) /\ Len(CallsOf(responses[Turn])) = 0

\* The thread is inside the range loop, working on tool call idx of this turn
\* (or has ended there).
InRangeLoop ==
    /\ pc \in {"Unmarshal", "Switch", "CallTool", "AwaitTool", "Result", "Exit"}
    /\ HasChoice(completion)
    /\ idx \in 1..Len(toolCalls)
    /\ exit \in {"", "panic", "Failed to call tool"}

\* The conversation as it was sent with the latest completion call.
Sent == completionCalls[Len(completionCalls)].Messages

\* In conversation ms the assistant message at position j is followed by one
\* tool-result message for each of its requests, with the identifiers in order.
Answered(ms, j) ==
    LET tc == ms[j].tool_calls
    IN /\ Len(ms) >= j + Len(tc)
       /\ \A i \in 1..Len(tc) :
             ms[j + i].role = "tool" /\ ms[j + i].tool_call_id = tc[i].ID

----------------------------------------------------------------------------
\* C1: main ends normally (Done) only right after a completion response whose
\* message carries no tool call request; every such response leads to Done
\* without a dispatch or a further completion call; a response with one or
\* more tool call requests does not end the loop on its turn.
C1_DoneIffNoToolCalls ==
    /\ exit = "Done" => FinalResponse
    /\ FinalResponse =>
          /\ pc \in {"Content", "ToolCalls"} \/ (pc = "Exit" /\ exit = "Done")
          /\ Len(completionCalls) = Turn
          /\ Len(invocations) = RequestsUpTo(Turn - 1)
          /\ inflight = {}
          /\ messages = Sent
    /\ (Turn >= 1 /\ Len(CallsOf(responses[Turn])) >= 1) => exit # "Done"

C1_Witness ==
    /\ exit = "Done"
    /\ Turn = 2
    /\ Len(CallsOf(responses[1])) = 2

\* C2: at every completion call after the first, what was appended to the
\* conversation since the previous call is the assistant message of the
\* previous response followed by one tool-result message per tool call request
\* of that response, with the requests' identifiers in the same order; and at
\* all times a tool-result message answers a request of the nearest assistant
\* message before it.
C2_TurnAppendsAssistantThenResults ==
    /\ \A k \in 2..Len(completionCalls) :
          LET prev == completionCalls[k - 1].Messages
              cur == completionCalls[k].Messages
              msg == responses[k - 1].Choices[1].Message
          IN /\ IsPrefix(prev, cur)
             /\ Len(cur) = Len(prev) + 1 + Len(msg.ToolCalls)
             /\ cur[Len(prev) + 1] = ToParam(msg)
             /\ Answered(cur, Len(prev) + 1)
    /\ \A j \in 1..Len(messages) :
          messages[j].role = "tool" =>
             \E a \in 1..(j - 1) :
                /\ messages[a].role = "assistant"
                /\ \A b \in (a + 1)..(j - 1) : messages[b].role = "tool"
                /\ j - a <= Len(messages[a].tool_calls)
                /\ messages[a].tool_calls[j - a].ID = messages[j].tool_call_id

C2_Witness ==
    /\ Len(completionCalls) = 2
    /\ Len(CallsOf(responses[1])) = 2
    /\ Len(messages) = Len(completionCalls[1].Messages) + 3
    /\ messages[Len(messages) - 1].tool_call_id # messages[Len(messages)].tool_call_id

\* C3: when the first n-1 responses each carry a tool call request and the
\* n-th carries none, and nothing fails, main ends after exactly n completion
\* calls and the last box shown is the text of the n-th response if that text
\* is not empty: a run that has ended normally made as many completion calls
\* as it received responses, of which only the last has no tool call request,
\* and a response without tool call requests always leads to the normal end.
C3_EndsAfterNCalls ==
    /\ [](exit = "Done" =>
            /\ Len(completionCalls) = Turn
            /\ \A k \in 1..(Turn - 1) : Len(CallsOf(responses[k])) >= 1
            /\ Len(CallsOf(responses[Turn])) = 0
            /\ Len(invocations) = RequestsUpTo(Turn)
            /\ TextOf(responses[Turn]) # "" =>
                  Last(display) = [kind |-> "result", text |-> TextOf(responses[Turn])])
    /\ (FinalResponse ~> (exit = "Done"))

\* The run of spec.md section 8: a call of sandbox_run_code with {"code":"7*6"}
\* that returns "42", then the answer "42": two completion calls.
C3_Witness ==
    /\ exit = "Done"
    /\ Len(completionCalls) = 2
    /\ CallsOf(responses[1]) =
          <<[ID |-> CallID(1, 1), Name |-> "sandbox_run_code", Arguments |-> CodeObject("7*6")]>>
    /\ Last(messages) = ToolMessage("42", CallID(1, 1))
    /\ TextOf(responses[2]) = "42"
    /\ Last(display) = [kind |-> "result", text |-> "42"]

\* C4: a failure of callTool (the arguments do not decode, or the invocation
\* fails) ends the process: no completion call follows the response of that
\* turn, the later tool calls of the turn are not dispatched, no tool-result
\* message is appended for the failed call or after it, and no conversation
\* sent to the completion API has an assistant message with fewer tool-result
\* messages than tool call requests.
C4_DispatchFailureIsFatal ==
    /\ err # "" =>
          /\ pc = "Exit" /\ exit = "Failed to call tool"
          /\ InRangeLoop
          /\ Len(completionCalls) = Turn
          /\ inflight = {}
          /\ Len(invocations) \in {RequestsUpTo(Turn - 1) + idx - 1, RequestsUpTo(Turn - 1) + idx}
          /\ Len(invocations) = RequestsUpTo(Turn - 1) + idx
                <=> err # "failed to unmarshal tool arguments"
          /\ Len(messages) = Len(Sent) + idx
          /\ messages[Len(Sent) + 1] = ToParam(Message)
    /\ \A k \in 1..Len(completionCalls) :
          \A j \in 1..Len(completionCalls[k].Messages) :
             completionCalls[k].Messages[j].role = "assistant" =>
                Answered(completionCalls[k].Messages, j)

\* Both kinds of failure at the second tool call of a turn are reached.
C4_Witness ==
    /\ err = "failed to call tool: transport"
    /\ idx = 2
    /\ Len(toolCalls) = 2
    /\ Turn = 2

----------------------------------------------------------------------------
\* More helpers of the properties.

RECURSIVE CodeBoxes(_)
\* The code boxes a fully dispatched list of tool calls shows.
CodeBoxes(tc) ==
    IF Len(tc) = 0 THEN <<>>
    ELSE LET c == tc[Len(tc)]
             before == CodeBoxes(SubSeq(tc, 1, Len(tc) - 1))
         IN IF c.Name = "sandbox_run_code"
            THEN Append(before, [kind |-> "code",
                                 text |-> MapIndex(Unmarshal(c.Arguments), "code").s])
            ELSE before

RECURSIVE ShownUpTo(_)
\* What is on the display after the first n turns were carried out in full.
ShownUpTo(n) ==
    IF n = 0 THEN <<[kind |-> "query", text |-> question]>>
    ELSE ShownUpTo(n - 1)
         \o (IF TextOf(responses[n]) # ""
             THEN <<[kind |-> "result", text |-> TextOf(responses[n])]>> ELSE <<>>)
         \o CodeBoxes(CallsOf(responses[n]))

CodeEvents == Cardinality({j \in 1..Len(display) : display[j].kind = "code"})

ToolMessages == {j \in 1..Len(messages) : messages[j].role = "tool"}

----------------------------------------------------------------------------
\* C5: when the argument payload of the tool call at hand is not JSON, callTool
\* fails with its decode error before the tool is invoked and before a code
\* box is shown for the call; the turn ends there and no tool-result message
\* is appended for the call.
C5_MalformedArgumentsAbortTurn ==
    (InRangeLoop /\ toolCalls[idx].Arguments.kind = "invalid") =>
        /\ \/ pc = "Unmarshal" /\ exit = ""
           \/ /\ pc = "Exit" /\ exit = "Failed to call tool"
              /\ err = "failed to unmarshal tool arguments"
        /\ Len(invocations) = RequestsUpTo(Turn - 1) + idx - 1
        /\ display = ShownUpTo(Turn - 1)
              \o (IF Message.Content # ""
                  THEN <<[kind |-> "result", text |-> Message.Content]>> ELSE <<>>)
              \o CodeBoxes(SubSeq(toolCalls, 1, idx - 1))
        /\ Len(messages) = Len(Sent) + idx
        /\ Len(completionCalls) = Turn
        /\ inflight = {}

\* The second tool call of a turn is malformed: the first was answered.
C5_Witness ==
    /\ err = "failed to unmarshal tool arguments"
    /\ idx = 2
    /\ toolCalls[2].Arguments = NotJSON
    /\ Last(messages).role = "tool"
    /\ CodeEvents = 1

\* C6: a completion call that fails is fatal: no further completion call is
\* made, no tool is dispatched, nothing is appended to the conversation and
\* no result box or code box is shown after it.
C6_CompletionErrorIsFatal ==
    (Len(completionCalls) > Turn /\ pc # "AwaitCompletion") =>
        /\ pc = "Exit" /\ exit = "Failed to create chat completion"
        /\ Len(completionCalls) = Turn + 1
        /\ inflight = {}
        /\ messages = Sent
        /\ Len(invocations) = RequestsUpTo(Turn)
        /\ display = ShownUpTo(Turn)

C6_Witness ==
    /\ exit = "Failed to create chat completion"
    /\ Turn = 1
    /\ Len(invocations) = 2
    /\ Len(display) >= 3

\* C7: the conversation only grows: it starts as the four fixed system
\* messages followed by the one user message, every step leaves what it held
\* as a prefix of what it holds next, and the package-level systemMessages
\* is never changed.
C7_ConversationAppendOnly ==
    /\ [](/\ systemMessages = InitialSystemMessages
          /\ Len(systemMessages) = 4
          /\ pc \in {"Complete", "AwaitCompletion", "Content", "ToolCalls", "Unmarshal",
                     "Switch", "CallTool", "AwaitTool", "Result"} => Len(messages) >= 5
          /\ messages # <<>> =>
                /\ IsPrefix(InitialSystemMessages \o <<UserMessage(question)>>, messages)
                /\ \A j \in 6..Len(messages) : messages[j].role \in {"assistant", "tool"}
          /\ \A k \in 1..Len(completionCalls) : IsPrefix(completionCalls[k].Messages, messages)
          /\ Len(completionCalls) >= 1 =>
                completionCalls[1].Messages = InitialSystemMessages \o <<UserMessage(question)>>)
    /\ [][IsPrefix(messages, messages')]_vars

C7_Witness ==
    /\ Turn = 2
    /\ Len(messages) = 5 + 3
    /\ pc = "Content"

\* C8: within a turn the tool calls are dispatched one at a time in the order
\* of the response: the work on tool call k+1 begins only when the result of
\* tool call k has come back and its tool-result message is appended, and
\* never are two remote operations (completion call, tool invocation) in
\* flight together.
C8_SequentialDispatch ==
    /\ Cardinality(inflight) <= 1
    /\ pc = "AwaitCompletion" => inflight = {CompletionOp(Len(completionCalls))}
    /\ pc = "AwaitTool" => inflight = {CallToolOp(Len(invocations))}
    /\ pc \notin {"AwaitCompletion", "AwaitTool"} => inflight = {}
    /\ InRangeLoop =>
          LET base == RequestsUpTo(Turn - 1)
              sent == Len(invocations) - base
          IN /\ sent \in {idx - 1, idx}
             /\ \A j \in 1..sent :
                   /\ invocations[base + j].For = toolCalls[j].ID
                   /\ invocations[base + j].Name = toolCalls[j].Name
             /\ pc \in {"Unmarshal", "Switch", "CallTool"} => sent = idx - 1
             /\ pc \in {"AwaitTool", "Result"} => sent = idx
             /\ Len(messages) = Len(Sent) + idx
             /\ \A j \in 1..(idx - 1) :
                   /\ messages[Len(Sent) + 1 + j].role = "tool"
                   /\ messages[Len(Sent) + 1 + j].tool_call_id = toolCalls[j].ID

C8_Witness ==
    /\ pc = "AwaitTool"
    /\ idx = 2
    /\ Turn = 2
    /\ Len(invocations) = RequestsUpTo(1) + 2

\* C9 as claimed: callTool fails with its invocation error on a transport
\* failure, on an error response and on a result the server marks as an error;
\* no such answer becomes a tool-result message.
C9_ErrorResultFailsDispatch ==
    toolResult.IsError =>
        /\ pc = "Exit" /\ exit = "Failed to call tool"
        /\ err # ""
        /\ Len(messages) = Len(Sent) + idx

\* C9, amended: callTool fails with its invocation error on a transport
\* failure and on a protocol error response of the tool call, and then no
\* tool-result message is appended for the call and no completion call
\* follows; a result the server marks as an error (IsError) is no failure:
\* its first content item becomes the tool-result message like that of any
\* other result, and goes to the model with the next completion call.
C9_InvocationErrorOnFailedCallOnly ==
    /\ toolResult.err = ""
    /\ err \in {"", "failed to unmarshal tool arguments",
                "failed to call tool: transport", "failed to call tool: rpc"}
    /\ err \in {"failed to call tool: transport", "failed to call tool: rpc"} =>
          /\ pc = "Exit" /\ exit = "Failed to call tool"
          /\ InRangeLoop
          /\ Len(invocations) = RequestsUpTo(Turn - 1) + idx
          /\ Len(messages) = Len(Sent) + idx
          /\ Len(completionCalls) = Turn
    /\ (pc # "Result" /\ ToolMessages # {}) =>
          LET j == CHOOSE x \in ToolMessages : \A y \in ToolMessages : y <= x
          IN messages[j].content = resultText(toolResult)
    /\ (pc = "Result" /\ exit = "") => Len(messages) = Len(Sent) + idx

C9_Witness ==
    /\ toolResult.IsError
    /\ pc = "AwaitCompletion"
    /\ Last(Sent) = ToolMessage("boom", CallID(1, 1))

\* C10: when the tool server cannot be initialized, cannot list its tools or
\* lists none, the process ends with no completion call and no tool call
\* made; when it lists one or more tools, discovery succeeds, and every
\* completion call of the run carries the one schema list converted from them.
C10_DiscoveryGatesTheLoop ==
    /\ exit \in {"Failed to initialize MCP client", "Failed to list tools",
                 "No tools available from MCP server"} =>
          /\ pc = "Exit"
          /\ completionCalls = <<>> /\ invocations = <<>> /\ inflight = {}
          /\ toolsSchema = <<>>
    /\ exit = "No tools available from MCP server" => Len(toolsResult) = 0
    /\ Len(toolsResult) >= 1 =>
          /\ exit \notin {"Failed to initialize MCP client", "Failed to list tools",
                          "No tools available from MCP server"}
          /\ pc \notin {"NewClient", "Start", "Initialize", "ListTools"}
    /\ pc \notin {"NewClient", "Start", "Initialize", "ListTools", "Exit"} =>
          Len(toolsResult) >= 1
    /\ \A k \in 1..Len(completionCalls) :
          /\ completionCalls[k].Tools = convertToolsSchema(toolsResult)
          /\ Len(completionCalls[k].Tools) = Len(toolsResult)
          /\ Len(completionCalls[k].Tools) >= 1
          /\ \A i \in 1..Len(toolsResult) :
                completionCalls[k].Tools[i].Name = toolsResult[i].Name

C10_Witness ==
    /\ Len(completionCalls) = 2
    /\ Len(toolsResult) = 2
    /\ completionCalls[1].Tools = completionCalls[2].Tools

----------------------------------------------------------------------------
\* C11: convertToolsSchema gives one schema per descriptor, in the order of
\* the descriptors and under their names; each has type "object"; its
\* properties are the descriptor's when these are not empty and an empty
\* object, present in the schema, otherwise; its required list is the
\* descriptor's when that is not empty and is absent otherwise.
C11_OneObjectSchemaPerDescriptor ==
    pc = "LookupEnv" =>
        /\ Len(toolsSchema) = Len(toolsResult)
        /\ \A i \in 1..Len(toolsResult) :
              LET in == toolsResult[i].InputSchema
                  out == toolsSchema[i].Parameters
              IN /\ toolsSchema[i].Name = toolsResult[i].Name
                 /\ toolsSchema[i].Description = toolsResult[i].Description
                 /\ "type" \in out.keys /\ out.type = "object"
                 /\ "properties" \in out.keys
                 /\ ~out.properties.isNil
                 /\ out.properties.keys = in.Properties.keys
                 /\ in.Properties.keys # {} => out.properties = in.Properties
                 /\ "required" \in out.keys <=> Len(in.Required) > 0
                 /\ Len(in.Required) > 0 => out.required = in.Required
                 /\ out.keys \subseteq {"type", "properties", "required"}

\* Two descriptors: one with nil properties and no required name, one with both.
C11_Witness ==
    /\ pc = "LookupEnv"
    /\ Len(toolsSchema) = 2
    /\ toolsResult[1].InputSchema = [Properties |-> Props(TRUE, {}), Required |-> <<>>]
    /\ toolsSchema[1].Parameters.keys = {"type", "properties"}
    /\ toolsSchema[1].Parameters.properties = Props(FALSE, {})
    /\ toolsResult[2].InputSchema.Required = <<"code", "language">>
    /\ toolsSchema[2].Parameters.keys = {"type", "properties", "required"}

----------------------------------------------------------------------------
\* The tool-result message appended last; toolResult is the result it was
\* made from whenever the thread is not between the return of a tool call and
\* the append.
LastToolMessage == messages[CHOOSE x \in ToolMessages : \A y \in ToolMessages : y <= x]

\* C12: the text of a successful tool call is decided by the first content
\* item alone: the item's text when it is a text item, a non-empty rendering
\* of the item when it is not, the empty string when there is no item; an
\* empty content is no error: the tool-result message is appended with an
\* empty text and the loop goes on.
C12_ResultTextFromFirstItem ==
    /\ pc = "Result" =>
          /\ exit = "" /\ err = ""
          /\ Len(messages) = Len(Sent) + idx
    /\ (pc # "Result" /\ ToolMessages # {}) =>
          LET c == toolResult.Content
              txt == LastToolMessage.content
          IN /\ Len(c) = 0 => txt = ""
             /\ (Len(c) > 0 /\ c[1].type = "text") => txt = c[1].text
             /\ (Len(c) > 0 /\ c[1].type # "text") => txt # "" /\ txt = Sprintf(c[1])
    /\ (pc \in {"Unmarshal", "Complete"} /\ ToolMessages # {} /\ idx > 1) =>
          /\ exit = ""
          /\ Last(messages).role = "tool"
          /\ Len(messages) = Len(Sent) + idx

\* An empty content went to the model as an empty tool-result message.
C12_Witness ==
    /\ toolResult = CallOK(FALSE, <<>>)
    /\ pc = "AwaitCompletion"
    /\ Turn = 1
    /\ Last(Sent) = ToolMessage("", CallID(1, 1))

----------------------------------------------------------------------------
\* The string under "code" in an argument payload that has one.
CodeOf(payload) == (CHOOSE e \in payload.members : e.k = "code").v.s

\* What was on the display when the work on tool call idx of this turn began.
ShownBeforeCall ==
    ShownUpTo(Turn - 1)
    \o (IF Message.Content # ""
        THEN <<[kind |-> "result", text |-> Message.Content]>> ELSE <<>>)
    \o CodeBoxes(SubSeq(toolCalls, 1, idx - 1))

\* C13: a tool call that names sandbox_run_code has its code argument shown
\* in a code box before its tools/call request leaves, and the box is there
\* whether the invocation then returns a result or fails; a tool call under
\* any other name shows no code box.
C13_CodeShownBeforeInvocation ==
    InRangeLoop =>
        /\ pc \in {"Unmarshal", "Switch"} => display = ShownBeforeCall
        /\ pc = "CallTool" => Len(invocations) = RequestsUpTo(Turn - 1) + idx - 1
        /\ (pc \in {"CallTool", "AwaitTool", "Result"}
               \/ (pc = "Exit" /\ err \in {"failed to call tool: transport",
                                           "failed to call tool: rpc"})) =>
              IF toolCalls[idx].Name = "sandbox_run_code"
              THEN display = Append(ShownBeforeCall,
                                    [kind |-> "code", text |-> CodeOf(toolCalls[idx].Arguments)])
              ELSE display = ShownBeforeCall

\* The run of spec.md section 8: {"code": "1+1"} for sandbox_run_code, answered "2".
C13_Witness ==
    /\ pc = "AwaitCompletion"
    /\ Turn = 1
    /\ CallsOf(responses[1]) =
          <<[ID |-> CallID(1, 1), Name |-> "sandbox_run_code", Arguments |-> CodeObject("1+1")]>>
    /\ display = <<[kind |-> "query", text |-> question], [kind |-> "code", text |-> "1+1"]>>
    /\ Last(Sent) = ToolMessage("2", CallID(1, 1))

\* C14: a tool call whose arguments decode, whatever its name and whatever the
\* decoded arguments hold, is invoked exactly once and its dispatch ends with
\* a result text or with a failed invocation; dispatch stops in no other way.
C14_DecodedCallInvokedOnce ==
    (InRangeLoop /\ ~Unmarshal(toolCalls[idx].Arguments).err) =>
        /\ pc = "Exit" =>
              /\ exit = "Failed to call tool"
              /\ err \in {"failed to call tool: transport", "failed to call tool: rpc"}
        /\ pc \in {"Result", "Exit"} =>
              /\ Len(invocations) = RequestsUpTo(Turn - 1) + idx
              /\ Last(invocations).For = toolCalls[idx].ID

\* C19: fetchModels returns the identifiers of the listing, in order, one
\* entry per listed model and no other entry (an empty listing gives an empty
\* result); a listing that ends with an error gives the error and no list.
C19_ExactlyTheListedModels ==
    /\ pc = "ShowForm" => /\ ~listed.err
                          /\ models = listed.items
    /\ pc = "Exit" => /\ exit = "Failed to fetch models"
                      /\ listed.err
                      /\ models = <<>>

\* The texts of the result boxes on the display, in the order shown.
ResultTexts ==
    LET boxes == SelectSeq(display, LAMBDA e : e.kind = "result")
    IN [j \in 1..Len(boxes) |-> boxes[j].text]

RECURSIVE TextsUpTo(_)
\* The non-empty texts of the first n responses, in order.
TextsUpTo(n) ==
    IF n = 0 THEN <<>>
    ELSE TextsUpTo(n - 1)
         \o (IF TextOf(responses[n]) # "" THEN <<TextOf(responses[n])>> ELSE <<>>)

\* C15: the text of every response received is shown in a result box exactly
\* once when it is not empty and never when it is empty, on every turn, with
\* or without tool call requests in the response; when the box is shown
\* nothing of the turn is appended to the conversation yet and none of its
\* tool calls is dispatched.
C15_TextShownOnceBeforeAppend ==
    /\ pc = "Content" =>
          /\ ResultTexts = TextsUpTo(Turn - 1)
          /\ messages = Sent
          /\ Len(invocations) = RequestsUpTo(Turn - 1)
    /\ pc = "ToolCalls" =>
          /\ ResultTexts = TextsUpTo(Turn)
          /\ TextOf(responses[Turn]) # "" =>
                Last(display) = [kind |-> "result", text |-> TextOf(responses[Turn])]
          /\ messages = Sent
          /\ Len(invocations) = RequestsUpTo(Turn - 1)
    /\ pc # "Content" => ResultTexts = TextsUpTo(Turn)

C15_Witness ==
    /\ pc = "ToolCalls"
    /\ Turn = 2
    /\ TextOf(responses[1]) = ""
    /\ TextOf(responses[2]) = "42"
    /\ Len(CallsOf(responses[2])) = 2
    /\ ResultTexts = <<"42">>
    /\ Last(messages).role = "tool"

\* Every response received so far carries one or more tool call requests.
AllCarryCalls == \A k \in 1..Turn : Len(CallsOf(responses[k])) >= 1

\* C16: the loop counts no turns: while every response carries a tool call
\* request the run does not end normally, the thread is back at the top of
\* the loop only with every request of the turn answered, and from every
\* such response the next completion call is made unless a failure ends the
\* process first. The number of calls is limited by the bound of the model
\* alone, at every value of that bound.
C16_NoTurnCap ==
    /\ [](AllCarryCalls => exit # "Done")
    /\ []((pc = "Complete" /\ Turn >= 1) =>
             /\ AllCarryCalls
             /\ exit = ""
             /\ Len(completionCalls) = Turn
             /\ Len(invocations) = RequestsUpTo(Turn))
    /\ \A n \in 1..(MaxTurns - 1) :
          (Turn = n /\ AllCarryCalls) ~>
              (Len(completionCalls) = n + 1 \/ exit \notin {"", "Done"})

\* As many turns as the model allows, each with tool call requests, and the
\* thread at the top of the loop once more.
C16_Witness ==
    /\ pc = "Complete"
    /\ exit = ""
    /\ Turn = MaxTurns
    /\ Len(completionCalls) = MaxTurns
    /\ AllCarryCalls
    /\ Last(messages).role = "tool"

\* A translated schema read back as a descriptor: its properties and its
\* required list become the input schema, a key the schema lacks is the nil
\* value of its field.
AsDescriptor(schema) ==
    Tool(schema.Name,
         IF "properties" \in schema.Parameters.keys
         THEN schema.Parameters.properties ELSE Props(TRUE, {}),
         IF "required" \in schema.Parameters.keys
         THEN schema.Parameters.required ELSE <<>>)

AsDescriptors(schemas) == [i \in 1..Len(schemas) |-> AsDescriptor(schemas[i])]

\* C17: translating a translated schema again changes nothing: with the
\* properties and the required list of each schema of convertToolsSchema taken
\* as a descriptor's input schema, convertToolsSchema gives the same schemas,
\* with the same properties and the same presence and content of "required".
C17_TranslationIdempotent ==
    pc = "LookupEnv" =>
        LET again == convertToolsSchema(AsDescriptors(toolsSchema))
        IN /\ again = toolsSchema
           /\ \A i \in 1..Len(toolsSchema) :
                 /\ again[i].Parameters.properties = toolsSchema[i].Parameters.properties
                 /\ again[i].Parameters.keys = toolsSchema[i].Parameters.keys
                 /\ again[i].Parameters.required = toolsSchema[i].Parameters.required

\* A descriptor the first translation changes (nil properties) beside one
\* with two required names.
C17_Witness ==
    /\ pc = "LookupEnv"
    /\ Len(toolsResult) = 2
    /\ toolsResult[1].InputSchema.Properties.isNil
    /\ toolsResult[1].InputSchema.Required = <<>>
    /\ toolsResult[2].InputSchema.Required = <<"code", "language">>
    /\ AsDescriptors(toolsSchema) # toolsResult
    /\ convertToolsSchema(AsDescriptors(toolsSchema)) = toolsSchema

\* The positions of the assistant messages of a conversation.
Assistants(ms) == {j \in 1..Len(ms) : ms[j].role = "assistant"}

\* C18: an assistant message enters the conversation only for a response with
\* one or more tool call requests, so the message of the final answer is
\* never appended; the conversation sent with a completion call ends with the
\* user message at the first call and with a tool-result message at every
\* later call; no assistant message is next to another.
C18_AssistantOnlyWithToolCalls ==
    /\ \A j \in Assistants(messages) : Len(messages[j].tool_calls) >= 1
    /\ Cardinality(Assistants(messages)) =
          Cardinality({k \in 1..Turn : Len(CallsOf(responses[k])) >= 1})
          - (IF pc \in {"Content", "ToolCalls"} /\ Len(CallsOf(responses[Turn])) >= 1
             THEN 1 ELSE 0)
    /\ exit = "Done" => /\ messages = Sent
                        /\ Last(messages).role \in {"user", "tool"}
    /\ \A k \in 1..Len(completionCalls) :
          Last(completionCalls[k].Messages).role = (IF k = 1 THEN "user" ELSE "tool")
    /\ \A j \in 1..(Len(messages) - 1) :
          ~(messages[j].role = "assistant" /\ messages[j + 1].role = "assistant")

\* A second completion call answered without tool call requests: the run has
\* ended and the conversation still ends with the tool-result messages of the
\* first turn.
C18_Witness ==
    /\ exit = "Done"
    /\ Turn = 2
    /\ Len(CallsOf(responses[1])) = 2
    /\ TextOf(responses[2]) = "42"
    /\ Cardinality(Assistants(messages)) = 1
    /\ Last(messages).role = "tool"
    /\ Last(completionCalls[1].Messages).role = "user"

====
